---- MODULE Spec2Model ----
(***************************************************************************)
(* A model of jj::TCP (src/tcp.hh) and jj::UDP (src/udp.hh): header-only   *)
(* wrappers that own one socket descriptor each.  The state is the set of  *)
(* C++ objects that are alive, the descriptor table of the process, the    *)
(* data the kernel has queued for each descriptor, and the outcome of the  *)
(* last call (its exception, the system calls it made, what it returned).  *)
(* Spec runs the lifetime operations (constructors, destructor, moves,     *)
(* accept_connection); SpecIO adds the send and receive operations and the *)
(* arrival of data.  Runs are MaxOps (MaxIoOps) steps long.                *)
(***************************************************************************)
EXTENDS Integers, Sequences, FiniteSets, TLC

\* ------------------------------------------------------------------ bounds
\* Number of C++ objects (variables holding a TCP or a UDP) that can exist.
NSlots == 2
\* Number of descriptors the process can have open (3, 4, ...).
NumFds == 3
\* Number of units (datagrams, stream chunks) the kernel queues in all.
MaxPending == 2
\* Number of steps of a run of the lifetime operations.
MaxOps == 5
\* Number of steps of a run that also sends and receives.
MaxIoOps == 4
MaxWireOps == 2

\* --------------------------------------------------------- program constants
AF_INET == 2
SockaddrInSize == 16
TwoTo16 == 65536

Slots == 1..NSlots
\* Descriptors 0, 1 and 2 are the standard streams.
FDs == 3..(2 + NumFds)

\* The -1 the code stores in sock_conf_len (socklen_t is unsigned 32-bit: the
\* pattern of all ones, written here as the signed value of that pattern).
MinusOneLen == -1

\* ------------------------------------------------------------ exceptions
NoErr == "none"
ErrSocket == "Failed to create socket"
ErrBind == "Failed to bind to port"
ErrConnect == "Failed to connect to server"
ErrListen == "Failed to start listener"
ErrAccept == "Failed to accept connection"
ErrMustServer == "Must accept connection from server"
ErrWriteServer == "Can not write to server socket"
ErrReadServer == "Can not read from server socket"
ErrWrite == "Failed to write to socket"
ErrRead == "Failed to read from socket"
\* std::stoul throws std::invalid_argument when no digits can be read.
ErrStoul == "std::invalid_argument"
\* std::string::resize throws std::length_error above max_size().
ErrLength == "std::length_error"

\* ------------------------------------------------------------- conversions
DigitChars == {"0", "1", "2", "3", "4", "5", "6", "7", "8", "9"}

DigitVal(c) ==
    CASE c = "0" -> 0 [] c = "1" -> 1 [] c = "2" -> 2 [] c = "3" -> 3 [] c = "4" -> 4
      [] c = "5" -> 5 [] c = "6" -> 6 [] c = "7" -> 7 [] c = "8" -> 8 [] c = "9" -> 9

\* Length of the longest prefix of s made of decimal digits.
RECURSIVE DigitPrefixLen(_)
DigitPrefixLen(s) ==
    IF s = <<>> \/ Head(s) \notin DigitChars THEN 0 ELSE 1 + DigitPrefixLen(Tail(s))

RECURSIVE DigitsValue(_, _)
DigitsValue(s, acc) ==
    IF s = <<>> THEN acc ELSE DigitsValue(Tail(s), acc * 10 + DigitVal(Head(s)))

\* std::stoul(port): skips leading blanks, reads the longest digit prefix and
\* ignores what follows; -1 stands for the std::invalid_argument it throws
\* when there is no digit to read.
RECURSIVE Stoul(_)
Stoul(s) ==
    IF s # <<>> /\ Head(s) = " " THEN Stoul(Tail(s))
    ELSE LET n == DigitPrefixLen(s)
         IN  IF n = 0 THEN -1 ELSE DigitsValue(SubSeq(s, 1, n), 0)

\* htons takes a uint16_t, so the value is cut to 16 bits, and returns it in
\* network byte order: on a little-endian host its two bytes are swapped.
Htons(v) ==
    LET w == v % TwoTo16
    IN  (w % 256) * 256 + (w \div 256)

\* inet_addr: the four octets of a dotted-decimal text, INADDR_NONE (all
\* ones) for a text that is no address.
InetAddr(ip) ==
    CASE ip = "0.0.0.0" -> <<0, 0, 0, 0>>
      [] ip = "10.0.0.1" -> <<10, 0, 0, 1>>
      [] OTHER -> <<255, 255, 255, 255>>

\* INADDR_ANY
InaddrAny == <<0, 0, 0, 0>>

\* ------------------------------------------------------------------ inputs
PortStrings == { <<"7">>, <<"7", "x">>, <<" ", "7">>, <<"x">> }
IpStrings == {"10.0.0.1"}
TcpSides == {"CLIENT", "SERVER", "CONNECTION"}
UdpSides == {"CLIENT", "SERVER"}
\* Address of the remote peer the kernel reports from accept().
PeerConf == [sin_family |-> AF_INET, sin_port |-> Htons(9), sin_addr |-> <<10, 0, 0, 2>>]
\* Values an uninitialised sin_addr can hold.
GarbageAddrs == {<<0, 0, 0, 0>>, <<10, 0, 0, 1>>}

\* What callers send: the content of a vector<char>, of a string (without
\* its terminator), of a trivially copyable object, of a raw buffer.
Payloads == { <<7>> }
\* Data the kernel receives for a descriptor in one unit.
ArrivingData == { <<7, 8, 0>> }
\* Capacities, in bytes, of the buffers callers receive into.
Caps == {2, 4}
\* sizeof(T) of the vector<T> callers receive into.
ElemSizes == {1, 2}
SendOps == {"<<vector", "<<string", "<<T", "write"}
RecvOps == {">>vector", ">>string", ">>T", "read"}

\* A sockaddr_in whose bytes are all zero.
ZeroConf == [sin_family |-> 0, sin_port |-> 0, sin_addr |-> <<0, 0, 0, 0>>]

\* A slot in which no object lives.
NoObj == [kind |-> "none", sock_fd |-> -1, sock_conf |-> ZeroConf,
          sock_conf_len |-> 0, side |-> "none"]

NoCalls == <<>>
\* One system call: the function, the descriptor it was given, what it
\* returned, and (send, sendto) the bytes and the address it was given or
\* (recv) the number of bytes it was asked for.
Call(fn, fd, ret) == [fn |-> fn, fd |-> fd, ret |-> ret, arg |-> <<>>]

VARIABLES
    eps,        \* slot -> the object living in it (NoObj when none)
    open,       \* descriptors open in the process
    acquired,   \* open descriptors handed to an object by a successful constructor or accept
    rxq,        \* descriptor -> data the kernel holds for it, oldest first
    last,       \* the last call: operation, objects, exception, system calls, result
    nops        \* steps taken so far

vars == <<eps, open, acquired, rxq, last, nops>>

Live(s) == eps[s].kind # "none"

\* One more step of the run.
Tick == nops < MaxOps /\ nops' = nops + 1

\* The slot a new object is given: objects have no identity beyond the slot
\* they live in, so each new one takes the lowest slot that is free.
FreeSlot(s) == ~Live(s) /\ \A u \in Slots : u < s => Live(u)

Result(op, self, obj, err, calls) ==
    [op |-> op, self |-> self, obj |-> obj, err |-> err, calls |-> calls,
     ret |-> 0, buf |-> <<>>, size |-> 0, capacity |-> 0, sizeofT |-> 1]

\* ------------------------------------------------------------ the kernel
LowestFree(o) == CHOOSE f \in FDs \ o : \A g \in FDs \ o : f <= g

\* socket() and accept() return the lowest free descriptor, or -1.
NewFdResults(o) == {-1} \cup (IF FDs \ o = {} THEN {} ELSE {LowestFree(o)})

\* A call on a descriptor that is not open fails (EBADF); on an open one the
\* kernel decides.
FdCallResults(fd, o) == IF fd \in o THEN {0, -1} ELSE {-1}

\* close(fd): releases fd when it is open, fails with EBADF otherwise.
CloseFd(fd, o) == o \ {fd}

EmptyQueues == [f \in FDs |-> <<>>]

Init ==
    /\ eps = [s \in Slots |-> NoObj]
    /\ open = {}
    /\ acquired = {}
    /\ rxq = EmptyQueues
    /\ last = Result("init", 0, 0, NoErr, NoCalls)
    /\ nops = 0

\* ------------------------------------------------------------ constructors
\* TCP::TCP(ip_addr, port, side).  sockRet is what socket() returned, osRet
\* what bind() or connect() returned, garbage the uninitialised sin_addr.
\* The result is the exception thrown (NoErr when the object is built), the
\* object, and the system calls made, in order.
TCPCtor(ip, port, side, sockRet, osRet, garbage) ==
    LET sock == <<Call("socket", -1, sockRet)>>
        conf(a) == [sin_family |-> AF_INET, sin_port |-> Htons(Stoul(port)), sin_addr |-> a]
        obj(a, len) == [kind |-> "TCP", sock_fd |-> sockRet, sock_conf |-> conf(a),
                        sock_conf_len |-> len, side |-> side]
    IN  IF sockRet = -1
        THEN [err |-> ErrSocket, obj |-> NoObj, calls |-> sock]
        ELSE IF Stoul(port) = -1
        THEN [err |-> ErrStoul, obj |-> NoObj, calls |-> sock]
        ELSE IF side = "SERVER"
        THEN IF osRet = -1
             THEN [err |-> ErrBind, obj |-> NoObj,
                   calls |-> Append(sock, Call("bind", sockRet, osRet))]
             ELSE [err |-> NoErr, obj |-> obj(InetAddr("0.0.0.0"), SockaddrInSize),
                   calls |-> Append(sock, Call("bind", sockRet, osRet))]
        ELSE IF side = "CLIENT"
        THEN IF osRet = -1
             THEN [err |-> ErrConnect, obj |-> NoObj,
                   calls |-> Append(sock, Call("connect", sockRet, osRet))]
             ELSE [err |-> NoErr, obj |-> obj(InetAddr(ip), MinusOneLen),
                   calls |-> Append(sock, Call("connect", sockRet, osRet))]
        ELSE [err |-> NoErr, obj |-> obj(garbage, SockaddrInSize), calls |-> sock]

\* UDP::UDP(ip_addr, port, side): sock_conf starts zeroed (member initialiser).
UDPCtor(ip, port, side, sockRet, osRet) ==
    LET sock == <<Call("socket", -1, sockRet)>>
        conf(a) == [sin_family |-> AF_INET, sin_port |-> Htons(Stoul(port)), sin_addr |-> a]
        obj(a) == [kind |-> "UDP", sock_fd |-> sockRet, sock_conf |-> conf(a),
                   sock_conf_len |-> SockaddrInSize, side |-> side]
    IN  IF sockRet = -1
        THEN [err |-> ErrSocket, obj |-> NoObj, calls |-> sock]
        ELSE IF Stoul(port) = -1
        THEN [err |-> ErrStoul, obj |-> NoObj, calls |-> sock]
        ELSE IF side = "SERVER"
        THEN IF osRet = -1
             THEN [err |-> ErrBind, obj |-> NoObj,
                   calls |-> Append(sock, Call("bind", sockRet, osRet))]
             ELSE [err |-> NoErr, obj |-> obj(InaddrAny),
                   calls |-> Append(sock, Call("bind", sockRet, osRet))]
        ELSE [err |-> NoErr, obj |-> obj(InetAddr(ip)), calls |-> sock]

\* What a constructor call does to the process: the descriptor socket()
\* returned is open from then on; a constructor that throws leaves no object
\* and, the destructor of an object that was never built not being run,
\* nothing closes that descriptor.
Constructed(s, op, r) ==
    LET fd == r.calls[1].ret
    IN  /\ open' = (IF fd = -1 THEN open ELSE open \cup {fd})
        /\ acquired' = (IF r.err = NoErr THEN acquired \cup {fd} ELSE acquired)
        /\ eps' = (IF r.err = NoErr THEN [eps EXCEPT ![s] = r.obj] ELSE eps)
        /\ last' = Result(op, s, 0, r.err, r.calls)
        /\ UNCHANGED rxq

\* Whether the constructor reaches bind() or connect().
CtorCallsOs(kind, port, side, sockRet) ==
    /\ sockRet # -1
    /\ Stoul(port) # -1
    /\ side = "SERVER" \/ (kind = "TCP" /\ side = "CLIENT")

TCPConstruct(s) ==
    /\ Tick
    /\ FreeSlot(s)
    /\ \E ip \in IpStrings, port \in PortStrings, side \in TcpSides :
       \E sockRet \in NewFdResults(open) :
       \E osRet \in (IF CtorCallsOs("TCP", port, side, sockRet) THEN {0, -1} ELSE {0}) :
       \E garbage \in (IF side = "CONNECTION" THEN GarbageAddrs ELSE {InaddrAny}) :
          Constructed(s, "TCP::TCP", TCPCtor(ip, port, side, sockRet, osRet, garbage))

UDPConstruct(s) ==
    /\ Tick
    /\ FreeSlot(s)
    /\ \E ip \in IpStrings, port \in PortStrings, side \in UdpSides :
       \E sockRet \in NewFdResults(open) :
       \E osRet \in (IF CtorCallsOs("UDP", port, side, sockRet) THEN {0, -1} ELSE {0}) :
          Constructed(s, "UDP::UDP", UDPCtor(ip, port, side, sockRet, osRet))

\* -------------------------------------------------------------- destructor
\* ~TCP() and ~UDP(): close(sock_fd), whatever sock_fd holds.
Destroy(s) ==
    /\ Tick
    /\ Live(s)
    /\ LET fd == eps[s].sock_fd
       IN  /\ open' = CloseFd(fd, open)
           /\ acquired' = acquired \ {fd}
           /\ rxq' = [f \in FDs |-> IF f = fd THEN <<>> ELSE rxq[f]]
           /\ last' = Result("destroy", s, 0, NoErr,
                             <<Call("close", fd, IF fd \in open THEN 0 ELSE -1)>>)
    /\ eps' = [eps EXCEPT ![s] = NoObj]

\* ------------------------------------------------------------------- moves
\* A move constructor that forgets obj.sock_fd = -1.
TCPMoveCtorKeepsSource(obj) ==
    [self |-> [kind |-> "TCP", sock_fd |-> obj.sock_fd, sock_conf |-> ZeroConf,
               sock_conf_len |-> obj.sock_conf_len, side |-> obj.side],
     obj |-> [obj EXCEPT !.sock_conf_len = MinusOneLen]]

\* TCP::TCP(TCP &&obj): the four members are taken from obj, then obj.sock_fd
\* and obj.sock_conf_len are set to -1; the std::fill between them zeroes the
\* sock_conf of the object being built (it names sock_conf, not obj.sock_conf).
TCPMoveCtor(obj) ==
    [self |-> [kind |-> "TCP", sock_fd |-> obj.sock_fd, sock_conf |-> ZeroConf,
               sock_conf_len |-> obj.sock_conf_len, side |-> obj.side],
     obj |-> [obj EXCEPT !.sock_fd = -1, !.sock_conf_len = MinusOneLen]]

\* TCP::operator=(TCP &&obj), this != &obj: sock_fd, sock_conf and
\* sock_conf_len are taken from obj; side is not assigned and the descriptor
\* the object held is not closed.
TCPMoveAssign(self, obj) ==
    [self |-> [self EXCEPT !.sock_fd = obj.sock_fd, !.sock_conf = ZeroConf,
                           !.sock_conf_len = obj.sock_conf_len],
     obj |-> [obj EXCEPT !.sock_fd = -1, !.sock_conf_len = MinusOneLen]]

\* UDP::UDP(UDP &&obj)
UDPMoveCtor(obj) ==
    [self |-> [kind |-> "UDP", sock_fd |-> obj.sock_fd, sock_conf |-> ZeroConf,
               sock_conf_len |-> obj.sock_conf_len, side |-> obj.side],
     obj |-> [obj EXCEPT !.sock_fd = -1, !.sock_conf_len = MinusOneLen]]

\* A move assignment that forgets obj.sock_fd = -1.
UDPMoveAssignKeepsSource(self, obj) ==
    [self |-> [self EXCEPT !.sock_fd = obj.sock_fd, !.sock_conf = ZeroConf,
                           !.sock_conf_len = obj.sock_conf_len, !.side = obj.side],
     obj |-> [obj EXCEPT !.sock_conf_len = MinusOneLen]]

\* UDP::operator=(UDP &&obj), this != &obj: as TCP's, and side is assigned.
UDPMoveAssign(self, obj) ==
    [self |-> [self EXCEPT !.sock_fd = obj.sock_fd, !.sock_conf = ZeroConf,
                           !.sock_conf_len = obj.sock_conf_len, !.side = obj.side],
     obj |-> [obj EXCEPT !.sock_fd = -1, !.sock_conf_len = MinusOneLen]]

\* A new object in slot d is move-constructed from the object in slot s.
MoveConstruct(d, s) ==
    /\ Tick
    /\ FreeSlot(d)
    /\ Live(s)
    /\ LET r == IF eps[s].kind = "TCP" THEN TCPMoveCtor(eps[s]) ELSE UDPMoveCtor(eps[s])
       IN  eps' = [eps EXCEPT ![d] = r.self, ![s] = r.obj]
    /\ last' = Result("move_ctor", d, s, NoErr, NoCalls)
    /\ UNCHANGED <<open, acquired, rxq>>

\* A move assignment that does not look for self-assignment.
NeverSelfAssign(d, s) == FALSE

\* The comparison this == &obj of the move assignment: the objects of slots d
\* and s are the same object.
SelfAssign(d, s) == d = s

\* The object in slot s is move-assigned to the object in slot d; d = s is
\* the self-assignment the operators return from at once.
MoveAssign(d, s) ==
    /\ Tick
    /\ Live(d)
    /\ Live(s)
    /\ eps[d].kind = eps[s].kind
    /\ LET r == IF eps[s].kind = "TCP" THEN TCPMoveAssign(eps[d], eps[s])
                ELSE UDPMoveAssign(eps[d], eps[s])
       IN  eps' = IF SelfAssign(d, s) THEN eps
                  ELSE [eps EXCEPT ![d] = r.self, ![s] = r.obj]
    /\ last' = Result("move_assign", d, s, NoErr, NoCalls)
    /\ UNCHANGED <<open, acquired, rxq>>

\* ------------------------------------------------------------------ accept
\* A role check that only turns clients away.
TCPCanAcceptNotClient(obj) == obj.side # "CLIENT"

\* The role check of accept_connection.
TCPCanAccept(obj) == obj.side = "SERVER"

\* An accept_connection that wraps the listening socket instead of new_sock.
AcceptConnectionWrapsListener(obj, listenRet, newSock) ==
    IF ~TCPCanAccept(obj) \/ listenRet = -1 \/ newSock = -1
    THEN [err |-> ErrAccept, self |-> obj, conn |-> NoObj, calls |-> NoCalls]
    ELSE [err |-> NoErr, self |-> obj,
          conn |-> [kind |-> "TCP", sock_fd |-> obj.sock_fd, sock_conf |-> ZeroConf,
                    sock_conf_len |-> MinusOneLen, side |-> "CONNECTION"],
          calls |-> <<Call("listen", obj.sock_fd, listenRet),
                      Call("accept", obj.sock_fd, newSock)>>]

\* TCP::accept_connection(queue_size) on obj; listenRet and newSock are what
\* listen() and accept() returned.  accept() writes the peer's address and
\* its length into the server's sock_conf and sock_conf_len.  The result is
\* the exception, the server afterwards, the TCP(new_sock) returned, and the
\* system calls made.
AcceptConnection(obj, listenRet, newSock) ==
    IF ~TCPCanAccept(obj)
    THEN [err |-> ErrMustServer, self |-> obj, conn |-> NoObj, calls |-> NoCalls]
    ELSE IF listenRet = -1
    THEN [err |-> ErrListen, self |-> obj, conn |-> NoObj,
          calls |-> <<Call("listen", obj.sock_fd, listenRet)>>]
    ELSE IF newSock = -1
    THEN [err |-> ErrAccept, self |-> obj, conn |-> NoObj,
          calls |-> <<Call("listen", obj.sock_fd, listenRet),
                      Call("accept", obj.sock_fd, newSock)>>]
    ELSE [err |-> NoErr,
          self |-> [obj EXCEPT !.sock_conf = PeerConf, !.sock_conf_len = SockaddrInSize],
          conn |-> [kind |-> "TCP", sock_fd |-> newSock, sock_conf |-> ZeroConf,
                    sock_conf_len |-> MinusOneLen, side |-> "CONNECTION"],
          calls |-> <<Call("listen", obj.sock_fd, listenRet),
                      Call("accept", obj.sock_fd, newSock)>>]

\* accept_connection is called on the object in slot s; the TCP it returns
\* initialises the variable of slot d.
Accept(s, d) ==
    /\ Tick
    /\ Live(s)
    /\ eps[s].kind = "TCP"
    /\ FreeSlot(d)
    /\ \E listenRet \in (IF TCPCanAccept(eps[s])
                         THEN FdCallResults(eps[s].sock_fd, open) ELSE {0}) :
       \E newSock \in (IF TCPCanAccept(eps[s]) /\ listenRet # -1
                       THEN NewFdResults(open) ELSE {-1}) :
          \E r \in {AcceptConnection(eps[s], listenRet, newSock)} :
              /\ eps' = IF r.err = NoErr
                        THEN [eps EXCEPT ![s] = r.self, ![d] = r.conn]
                        ELSE eps
              /\ open' = IF r.err = NoErr THEN open \cup {newSock} ELSE open
              /\ acquired' = IF r.err = NoErr THEN acquired \cup {newSock} ELSE acquired
              /\ last' = Result("accept_connection", s, IF r.err = NoErr THEN d ELSE 0,
                                 r.err, r.calls)
              /\ UNCHANGED rxq

\* ---------------------------------------------------------- send, receive
\* The bytes a send operation hands to send(): a string goes with its
\* terminator (obj.size() + 1 bytes from c_str()), the others as they are.
WireBytes(op, data) == IF op = "<<string" THEN Append(data, 0) ELSE data

\* A role check that lets every role through.
TCPCanIOAnyRole(obj) == obj.side \in TcpSides

\* The role check of TCP's operator<<, operator>>, write and read.
TCPCanIO(obj) == obj.side # "SERVER"

\* What send() can return for n bytes on descriptor fd: -1, or the number
\* of bytes taken, which on a stream may be less than n.
SendResults(kind, fd, n, o) ==
    IF fd \notin o THEN {-1}
    ELSE IF kind = "TCP" THEN {-1} \cup (0..n) ELSE {-1, n}

\* The four TCP send operations on obj: role check, send(), check of -1.
\* The result is the exception, the system call, the value returned and the
\* endpoint afterwards: no operation assigns a member.
TCPSend(op, obj, data, ret) ==
    LET bytes == WireBytes(op, data)
        call == [Call("send", obj.sock_fd, ret) EXCEPT !.arg = bytes]
    IN  IF ~TCPCanIO(obj)
        THEN [err |-> ErrWriteServer, calls |-> NoCalls, ret |-> 0, self |-> obj]
        ELSE IF ret = -1
        THEN [err |-> ErrWrite, calls |-> <<call>>, ret |-> 0, self |-> obj]
        ELSE [err |-> NoErr, calls |-> <<call>>,
              ret |-> IF op = "write" THEN ret ELSE 0, self |-> obj]

\* The four UDP send operations: sendto() to sock_conf / sock_conf_len.
UDPSend(op, obj, data, ret) ==
    LET bytes == WireBytes(op, data)
        call == [Call("sendto", obj.sock_fd, ret) EXCEPT
                    !.arg = <<bytes, obj.sock_conf, obj.sock_conf_len>>]
    IN  IF ret = -1
        THEN [err |-> ErrWrite, calls |-> <<call>>, ret |-> 0, self |-> obj]
        ELSE [err |-> NoErr, calls |-> <<call>>,
              ret |-> IF op = "write" THEN ret ELSE 0, self |-> obj]

Send(s) ==
    /\ Tick
    /\ Live(s)
    /\ \E op \in SendOps, data \in Payloads :
       \E ret \in (IF eps[s].kind = "TCP" /\ ~TCPCanIO(eps[s]) THEN {0}
                   ELSE SendResults(eps[s].kind, eps[s].sock_fd,
                                    Len(WireBytes(op, data)), open)) :
          \E r \in {IF eps[s].kind = "TCP" THEN TCPSend(op, eps[s], data, ret)
                    ELSE UDPSend(op, eps[s], data, ret)} :
              /\ last' = [Result(op, s, 0, r.err, r.calls) EXCEPT !.ret = r.ret]
              /\ eps' = [eps EXCEPT ![s] = r.self]
    /\ UNCHANGED <<open, acquired, rxq>>

RECURSIVE Flatten(_)
Flatten(q) == IF q = <<>> THEN <<>> ELSE Head(q) \o Flatten(Tail(q))

Min(a, b) == IF a < b THEN a ELSE b

\* A recv() that leaves the part of a datagram that did not fit at the head
\* of the queue, as it does with the bytes of a stream.
RecvResultsKeepsRest(kind, fd, cap, o, q) ==
    IF fd \notin o \/ q = <<>> THEN {[ret |-> -1, bytes |-> <<>>, queue |-> q]}
    ELSE {[ret |-> Min(cap, Len(Head(q))),
           bytes |-> SubSeq(Head(q), 1, Min(cap, Len(Head(q)))),
           queue |-> IF cap < Len(Head(q))
                     THEN <<SubSeq(Head(q), cap + 1, Len(Head(q)))>> \o Tail(q)
                     ELSE Tail(q)]}

\* What recv(fd, buf, cap, 0) can do: fail with -1; hand over the oldest
\* datagram cut to cap bytes, the rest of it being dropped (UDP); hand over
\* the first cap bytes of the stream, or 0 bytes when the stream is empty and
\* the peer has closed (TCP).  Each outcome is the return value, the bytes
\* stored and the queue afterwards.  recv() on an empty queue blocks.
RecvResults(kind, fd, cap, o, q) ==
    LET fail == [ret |-> -1, bytes |-> <<>>, queue |-> q]
        all == Flatten(q)
        n == Min(cap, Len(all))
    IN  IF fd \notin o THEN {fail}
        ELSE IF kind = "UDP"
        THEN {fail} \cup
             (IF q = <<>> THEN {}
              ELSE {[ret |-> Min(cap, Len(Head(q))),
                     bytes |-> SubSeq(Head(q), 1, Min(cap, Len(Head(q)))),
                     queue |-> Tail(q)]})
        ELSE {fail} \cup
             {[ret |-> n, bytes |-> SubSeq(all, 1, n),
               queue |-> IF n = Len(all) THEN <<>> ELSE <<SubSeq(all, n + 1, Len(all))>>]}

\* A receive that leaves the buffer at the size it was given for recv().
RecvSizeKeepsCapacity(op, cap, es, n) == cap \div es

\* obj.size() after a receive operation into a buffer of cap bytes whose
\* recv() returned n bytes: resize(nbytes / sizeof(T)) for a vector<T>,
\* resize(nbytes) for a string; an object of type T and a raw buffer keep
\* their size.
RecvSize(op, cap, es, n) ==
    IF op = ">>vector" THEN n \div es
    ELSE IF op = ">>string" THEN n
    ELSE cap

\* obj.capacity() after resize(k) of a vector or string whose capacity was
\* cap: a resize allocates only when k is above the capacity.
ResizeCapacity(cap, k) == IF k > cap THEN k ELSE cap

\* The buffer after a receive operation whose recv() stored r.bytes; size is
\* the length the string had before the call.
\*   >>vector: resize(capacity), recv over the first nbytes bytes, then
\*     resize(nbytes / sizeof(T)) elements of es bytes
\*   >>string: recv into data(), then resize(nbytes): a string shorter than
\*     nbytes is grown, and the characters resize appends are '\0', written
\*     over what recv stored past the old length
\*   >>T, read: the bytes received replace the first bytes of the object
RecvBuffer(op, cap, size, es, r) ==
    LET zeros == [i \in 1..cap |-> 0]
        n == Len(r.bytes)
    IN  IF op = ">>vector"
        THEN SubSeq(r.bytes \o SubSeq(zeros, n + 1, cap), 1, RecvSize(op, cap, es, n) * es)
        ELSE IF op = ">>string"
        THEN IF n <= size THEN r.bytes
             ELSE SubSeq(r.bytes, 1, size) \o SubSeq(zeros, size + 1, n)
        ELSE r.bytes \o SubSeq(zeros, n + 1, cap)

\* The exception of a receive operation whose recv() returned ret: >>string
\* calls obj.resize(nbytes) before it checks nbytes, and resize(-1), a size
\* above max_size(), throws std::length_error.
RecvError(op, ret) ==
    IF ret # -1 THEN NoErr
    ELSE IF op = ">>string" THEN ErrLength ELSE ErrRead

\* A receive operation after its recv() of cap bytes returned r.ret: the
\* exception, the system call, the value returned, and the caller's buffer
\* afterwards (bytes, size(), capacity(), in elements of es bytes) and the
\* endpoint afterwards: no operation assigns a member.
RecvDone(op, obj, cap, size, es, r) ==
    LET call == [Call("recv", obj.sock_fd, r.ret) EXCEPT !.arg = cap]
        sz == RecvSize(op, cap, es, Len(r.bytes))
    IN  IF r.ret = -1
        THEN [err |-> RecvError(op, r.ret), calls |-> <<call>>, ret |-> 0,
              buf |-> <<>>, size |-> 0, capacity |-> 0, sizeofT |-> es, self |-> obj]
        ELSE [err |-> NoErr, calls |-> <<call>>,
              ret |-> IF op = "read" THEN r.ret ELSE 0,
              buf |-> RecvBuffer(op, cap, size, es, r),
              size |-> sz,
              capacity |-> ResizeCapacity(cap \div es, sz),
              sizeofT |-> es, self |-> obj]

\* The four TCP receive operations on obj: role check, then recv().
TCPRecv(op, obj, cap, size, es, r) ==
    IF ~TCPCanIO(obj)
    THEN [err |-> ErrReadServer, calls |-> NoCalls, ret |-> 0,
          buf |-> <<>>, size |-> 0, capacity |-> 0, sizeofT |-> es, self |-> obj]
    ELSE RecvDone(op, obj, cap, size, es, r)

\* A receive that stores the sender's address as recvfrom() would.
UDPRecvFrom(op, obj, cap, size, es, r) ==
    [RecvDone(op, obj, cap, size, es, r) EXCEPT
        !.self = [obj EXCEPT !.sock_conf = PeerConf, !.sock_conf_len = SockaddrInSize]]

\* The four UDP receive operations on obj: recv(), which has no address
\* parameter.
UDPRecv(op, obj, cap, size, es, r) == RecvDone(op, obj, cap, size, es, r)

Recv(s) ==
    /\ Tick
    /\ Live(s)
    /\ \E op \in RecvOps, cap \in Caps :
       \E size \in (IF op = ">>string" THEN {0, cap} ELSE {cap}),
          es \in (IF op = ">>vector" THEN ElemSizes ELSE {1}) :
       LET fd == eps[s].sock_fd
           q == IF fd \in FDs THEN rxq[fd] ELSE <<>>
           none == [ret |-> 0, bytes |-> <<>>, queue |-> q]
       IN  \E r \in (IF eps[s].kind = "TCP" /\ ~TCPCanIO(eps[s]) THEN {none}
                     ELSE RecvResults(eps[s].kind, fd, cap, open, q)) :
              \E x \in {IF eps[s].kind = "TCP" THEN TCPRecv(op, eps[s], cap, size, es, r)
                        ELSE UDPRecv(op, eps[s], cap, size, es, r)} :
                  /\ last' = [Result(op, s, 0, x.err, x.calls) EXCEPT
                                 !.ret = x.ret, !.buf = x.buf, !.size = x.size,
                                 !.capacity = x.capacity, !.sizeofT = x.sizeofT]
                  /\ eps' = [eps EXCEPT ![s] = x.self]
                  /\ rxq' = IF fd \in FDs THEN [rxq EXCEPT ![fd] = r.queue] ELSE rxq
    /\ UNCHANGED <<open, acquired>>

\* The network delivers data for an open descriptor.
Pending == LET RECURSIVE Sum(_)
               Sum(S) == IF S = {} THEN 0
                         ELSE LET f == CHOOSE f \in S : TRUE
                              IN  Len(rxq[f]) + Sum(S \ {f})
           IN  Sum(FDs)

Arrive(fd) ==
    /\ Tick
    /\ fd \in open
    /\ Pending < MaxPending
    /\ \E data \in ArrivingData : rxq' = [rxq EXCEPT ![fd] = Append(@, data)]
    /\ last' = Result("arrive", 0, 0, NoErr, NoCalls)
    /\ UNCHANGED <<eps, open, acquired>>

Next ==
    \/ \E s \in Slots : TCPConstruct(s)
    \/ \E s \in Slots : UDPConstruct(s)
    \/ \E s \in Slots : Destroy(s)
    \/ \E d, s \in Slots : MoveConstruct(d, s)
    \/ \E d, s \in Slots : MoveAssign(d, s)
    \/ \E s, d \in Slots : Accept(s, d)

\* The lifetime operations: constructors, destructor, moves, accept.
Spec == Init /\ [][Next]_vars

\* A run that also sends and receives is MaxIoOps steps long.
IoRun == nops < MaxIoOps

NextIO ==
    \/ \E s \in Slots : IoRun /\ TCPConstruct(s)
    \/ \E s \in Slots : IoRun /\ UDPConstruct(s)
    \/ \E s \in Slots : IoRun /\ Destroy(s)
    \/ \E d, s \in Slots : IoRun /\ MoveConstruct(d, s)
    \/ \E d, s \in Slots : IoRun /\ MoveAssign(d, s)
    \/ \E s, d \in Slots : IoRun /\ Accept(s, d)
    \/ \E s \in Slots : IoRun /\ Send(s)
    \/ \E s \in Slots : IoRun /\ Recv(s)
    \/ \E fd \in FDs : IoRun /\ Arrive(fd)

\* The lifetime operations with the send and receive operations and the
\* network.
SpecIO == Init /\ [][NextIO]_vars

\* -------------------------------------------------------------- two peers
\* What the endpoints of a connected or addressed pair send each other.
WirePayloads == { <<7, 8>>, <<7, 8, 9>> }

\* The receive operation for the payload kind a send operation sends.
RecvOf(op) ==
    IF op = "<<vector" THEN ">>vector"
    ELSE IF op = "<<string" THEN ">>string"
    ELSE IF op = "<<T" THEN ">>T"
    ELSE "read"

\* The descriptors the bytes of a successful send or sendto reach: the other
\* end of the connection (TCP), the sockets bound to the port the datagram
\* is addressed to (UDP).
Destinations(s, call) ==
    IF eps[s].kind = "TCP"
    THEN {eps[u].sock_fd : u \in {v \in Slots \ {s} : Live(v) /\ eps[v].kind = "TCP"}}
    ELSE {eps[u].sock_fd :
            u \in {v \in Slots : /\ Live(v)
                                 /\ eps[v].kind = "UDP"
                                 /\ eps[v].side = "SERVER"
                                 /\ call.arg[2].sin_family = AF_INET
                                 /\ eps[v].sock_conf.sin_port = call.arg[2].sin_port}}

\* The receive queues after the network carried the ret bytes the kernel
\* took from a send (appended to the stream) or a sendto (one datagram).
Delivered(s, call) ==
    LET bytes == IF eps[s].kind = "TCP" THEN SubSeq(call.arg, 1, call.ret)
                 ELSE call.arg[1]
        dst == Destinations(s, call) \cap open
    IN  [fd \in FDs |->
            IF fd \notin dst THEN rxq[fd]
            ELSE IF eps[s].kind = "UDP" THEN Append(rxq[fd], bytes)
            ELSE IF Flatten(rxq[fd]) \o bytes = <<>> THEN <<>>
            ELSE <<Flatten(rxq[fd]) \o bytes>>]

\* Two endpoints that can reach each other, after their construction: a
\* TCP client in slot 1 and the Connection the server's accept_connection
\* returned for it in slot 2 (the server is destroyed), or a UDP client in
\* slot 1 addressed to the UDP server in slot 2.
InitWire ==
    /\ \E ip \in IpStrings, kind \in {"TCP", "UDP"} :
          LET port == <<"7">>
              tcpS == TCPCtor(ip, port, "SERVER", 3, 0, InaddrAny).obj
              tcpC == TCPCtor(ip, port, "CLIENT", 4, 0, InaddrAny).obj
              conn == AcceptConnection(tcpS, 0, 5).conn
              udpS == UDPCtor(ip, port, "SERVER", 3, 0).obj
              udpC == UDPCtor(ip, port, "CLIENT", 4, 0).obj
          IN  /\ eps = [s \in Slots |->
                          IF s = 1 THEN (IF kind = "TCP" THEN tcpC ELSE udpC)
                          ELSE IF s = 2 THEN (IF kind = "TCP" THEN conn ELSE udpS)
                          ELSE NoObj]
              /\ open = IF kind = "TCP" THEN {4, 5} ELSE {3, 4}
              /\ acquired = IF kind = "TCP" THEN {4, 5} ELSE {3, 4}
    /\ rxq = EmptyQueues
    /\ last = Result("init", 0, 0, NoErr, NoCalls)
    /\ nops = 0

\* A send operation on the object in slot s whose bytes the network carries
\* to the peer.  The step records the payload the caller passed and, for a
\* vector, the size of its elements.
WireSend(s) ==
    /\ Tick
    /\ Live(s)
    /\ \E op \in SendOps, data \in WirePayloads :
       \E es \in (IF op = "<<vector"
                  THEN {e \in ElemSizes : Len(data) % e = 0} ELSE {1}),
          ret \in (IF eps[s].kind = "TCP" /\ ~TCPCanIO(eps[s]) THEN {0}
                   ELSE SendResults(eps[s].kind, eps[s].sock_fd,
                                    Len(WireBytes(op, data)), open)) :
          \E r \in {IF eps[s].kind = "TCP" THEN TCPSend(op, eps[s], data, ret)
                    ELSE UDPSend(op, eps[s], data, ret)} :
              /\ last' = [Result(op, s, 0, r.err, r.calls) EXCEPT
                             !.ret = r.ret, !.buf = data, !.sizeofT = es]
              /\ eps' = [eps EXCEPT ![s] = r.self]
              /\ rxq' = IF r.err = NoErr THEN Delivered(s, r.calls[1]) ELSE rxq
    /\ UNCHANGED <<open, acquired>>

\* A run of two peers is MaxWireOps steps long.
WireRun == nops < MaxWireOps

NextWire ==
    \/ \E s \in Slots : WireRun /\ WireSend(s)
    \/ \E s \in Slots : WireRun /\ Recv(s)

\* Two peers that send to and receive from each other.
SpecWire == InitWire /\ [][NextWire]_vars

\* ================================================================ properties
MoveOps == {"move_ctor", "move_assign"}
CtorOps == {"TCP::TCP", "UDP::UDP"}
IoOps == SendOps \cup RecvOps
\* The exceptions the role checks throw.
RoleViolationError == {ErrMustServer, ErrWriteServer, ErrReadServer}

\* The object slot s holds owns a descriptor (not the sentinel -1).
Holds(s) == Live(s) /\ eps[s].sock_fd # -1

\* The last step moved the object of slot last.obj into another slot.
Moved == last.op \in MoveOps /\ last.self # last.obj

\* C1: no two live endpoints hold the same non-sentinel handle, and every
\* handle a live endpoint holds is open: none was closed while an endpoint
\* still held it.
C1_ExclusiveOwnership ==
    /\ \A s, u \in Slots : s # u /\ Holds(s) /\ Holds(u) => eps[s].sock_fd # eps[u].sock_fd
    /\ \A s \in Slots : Holds(s) => eps[s].sock_fd \in open

\* A move assignment between two datagram endpoints that both owned a
\* handle has happened, and the destination holds the handle.
C1_Witness ==
    /\ Moved
    /\ last.op = "move_assign"
    /\ eps[last.self].kind = "UDP"
    /\ Holds(last.self)
    /\ Cardinality(open) >= 2

\* C2: once every endpoint is destroyed, no handle acquired by a successful
\* constructor or accept is still open.
C2_AllHandlesClosed ==
    (\A s \in Slots : ~Live(s)) => acquired = {}

\* C3: when the constructor fails at bind or connect, the socket it
\* allocated is closed and no endpoint exists.
C3_FailedConstructReleases ==
    (last.op \in CtorOps /\ last.err \in {ErrBind, ErrConnect})
        => /\ last.calls[1].ret \notin open
           /\ ~Live(last.self)

\* C4: when the constructor fails on a non-numeric port, no socket has been
\* allocated: socket() was not called.
C4_BadPortBeforeSocket ==
    (last.op \in CtorOps /\ last.err = ErrStoul) => last.calls = NoCalls

\* C5: every send and receive operation on a stream endpoint whose role is
\* Server throws the role violation, makes no system call and leaves the
\* data queued for every descriptor where it is.
C5_ServerNeverSendsOrReceives ==
    [][\A s \in Slots :
          (/\ last'.op \in IoOps
           /\ last'.self = s
           /\ eps[s].kind = "TCP"
           /\ eps[s].side = "SERVER")
          => /\ last'.err \in {ErrWriteServer, ErrReadServer}
             /\ last'.err \in RoleViolationError
             /\ last'.calls = NoCalls
             /\ rxq' = rxq
             /\ eps' = eps]_vars

\* A receive was tried on a server whose handle is open and has data queued.
C5_Witness ==
    /\ last.op \in RecvOps
    /\ Live(last.self)
    /\ eps[last.self].kind = "TCP"
    /\ eps[last.self].side = "SERVER"
    /\ eps[last.self].sock_fd \in open
    /\ rxq[eps[last.self].sock_fd] # <<>>
    /\ last.err = ErrReadServer

\* C6: accept_connection on an endpoint whose role is Client or Connection
\* throws the role violation without calling listen or accept; listen and
\* accept are called for a Server only.
C6_AcceptOnlyOnServer ==
    (last.op = "accept_connection" /\ eps[last.self].side # "SERVER")
        => /\ last.err = ErrMustServer
           /\ last.err \in RoleViolationError
           /\ last.calls = NoCalls

\* accept_connection was tried on a Connection that an accept returned.
C6_Witness ==
    /\ last.op = "accept_connection"
    /\ eps[last.self].side = "CONNECTION"
    /\ eps[last.self].sock_conf = ZeroConf
    /\ eps[last.self].sock_fd \in open
    /\ last.err = ErrMustServer

\* C7: the public constructor yields no endpoint whose role is Connection.
C7_NoPublicConnection ==
    (last.op = "TCP::TCP" /\ last.err = NoErr) => eps[last.self].side # "CONNECTION"

\* C8: after a move of a stream endpoint the destination's role is the
\* source's (a move leaves the source's own role as it was).
C8_MovePreservesRole ==
    (Moved /\ eps[last.self].kind = "TCP") => eps[last.self].side = eps[last.obj].side

\* C9: after a move of a datagram endpoint the destination's address
\* configuration (family, port, address, length) is what the source's was
\* before the move.
C9_MovePreservesAddress ==
    [][\A d, s \in Slots :
          (/\ last'.op \in MoveOps
           /\ last'.self = d
           /\ last'.obj = s
           /\ d # s
           /\ eps[s].kind = "UDP")
          => /\ eps'[d].sock_conf = eps[s].sock_conf
             /\ eps'[d].sock_conf_len = eps[s].sock_conf_len]_vars

\* C10: a move leaves the source with the sentinel -1 and the destination
\* with the source's handle, and destroying an endpoint that holds the
\* sentinel closes nothing: every handle another endpoint holds stays open.
C10_MovedFromIsInert ==
    [][/\ \A d, s \in Slots :
             (last'.op \in MoveOps /\ last'.self = d /\ last'.obj = s /\ d # s)
             => /\ eps'[s].sock_fd = -1
                /\ eps'[d].sock_fd = eps[s].sock_fd
                /\ open' = open
       /\ \A s \in Slots :
             (last'.op = "destroy" /\ last'.self = s /\ eps[s].sock_fd = -1)
             => /\ open' = open
                /\ \A u \in Slots \ {s} :
                      eps'[u] = eps[u] /\ (Holds(u) => eps'[u].sock_fd \in open')]_vars

\* A moved-from endpoint was destroyed while the endpoint it was moved into
\* holds the handle, which is open.
C10_Witness ==
    /\ last.op = "destroy"
    /\ last.calls[1].fd = -1
    /\ \E u \in Slots : Holds(u) /\ eps[u].sock_fd \in open /\ eps[u].sock_conf = ZeroConf

\* C11: a successful accept_connection on a Server yields an endpoint whose
\* role is Connection and whose handle is the socket accept() returned, a
\* handle that was not open before and differs from the server's; the
\* server keeps its handle and its role, so that it passes the role check of
\* accept_connection again.  Destroying a Server leaves every Connection as
\* it was with its handle open, and a send or receive on a Connection whose
\* handle is open passes the role check and reaches send() or recv() on
\* that handle.
C11_AcceptYieldsConnection ==
    [][/\ \A s, d \in Slots :
             (/\ last'.op = "accept_connection"
              /\ last'.err = NoErr
              /\ last'.self = s
              /\ last'.obj = d)
             => /\ eps'[d].side = "CONNECTION"
                /\ eps'[d].sock_fd = last'.calls[2].ret
                /\ eps'[d].sock_fd \notin open
                /\ eps'[d].sock_fd \in open'
                /\ eps'[d].sock_fd # eps'[s].sock_fd
                /\ eps'[s].sock_fd = eps[s].sock_fd
                /\ eps'[s].side = eps[s].side
                /\ TCPCanAccept(eps'[s])
       /\ \A s \in Slots :
             (last'.op = "destroy" /\ last'.self = s /\ eps[s].side = "SERVER")
             => \A u \in Slots \ {s} :
                   (Holds(u) /\ eps[u].side = "CONNECTION" /\ eps[u].sock_fd \in open)
                   => /\ eps'[u] = eps[u]
                      /\ eps'[u].sock_fd \in open'
                      /\ TCPCanIO(eps'[u])
       /\ \A u \in Slots :
             (/\ last'.op \in IoOps
              /\ last'.self = u
              /\ eps[u].side = "CONNECTION"
              /\ eps[u].sock_fd \in open)
             => /\ last'.err \notin RoleViolationError
                /\ Len(last'.calls) = 1
                /\ last'.calls[1].fd = eps[u].sock_fd]_vars

\* A Connection sent successfully after the Server that accepted it was
\* destroyed: the Connection's handle is the only one open.
C11_Witness ==
    /\ last.op \in SendOps
    /\ last.err = NoErr
    /\ eps[last.self].side = "CONNECTION"
    /\ open = {eps[last.self].sock_fd}
    /\ \A u \in Slots \ {last.self} : ~Live(u)

\* C12: when recv() returns -1, every receive operation of both transports
\* (>>vector, >>string, >>T, read) throws the read error and no other
\* exception.
C12_RecvFailureIsReadError ==
    (/\ last.op \in RecvOps
     /\ Len(last.calls) = 1
     /\ last.calls[1].fn = "recv"
     /\ last.calls[1].ret = -1)
        => last.err = ErrRead

\* C13: a send operation on a stream endpoint for which send() returned
\* fewer bytes than the payload has (0 <= nbytes < requested) ends with an
\* exception.
C13_ShortWriteIsError ==
    (/\ last.op \in SendOps
     /\ Len(last.calls) = 1
     /\ last.calls[1].fn = "send"
     /\ last.calls[1].ret >= 0
     /\ last.calls[1].ret < Len(last.calls[1].arg))
        => last.err # NoErr

\* C14: after a receive into a vector or string that succeeded, recv()
\* returned n with 0 <= n <= c, c the capacity in bytes it was given; the
\* buffer's capacity is what it was, and its size is n / sizeof(T) elements
\* (n characters for a string), no more than the capacity, and the buffer
\* holds that many elements.
C14_ReceivedLength ==
    (last.op \in {">>vector", ">>string"} /\ last.err = NoErr)
        => LET n == last.calls[1].ret
               c == last.calls[1].arg
               s == last.sizeofT
           IN  /\ 0 <= n
               /\ n <= c
               /\ last.capacity = c \div s
               /\ last.size = n \div s
               /\ last.size <= last.capacity
               /\ Len(last.buf) = last.size * s

\* A vector of two-byte elements with room for two of them received three
\* bytes and holds one element.
C14_Witness ==
    /\ last.op = ">>vector"
    /\ last.err = NoErr
    /\ last.sizeofT = 2
    /\ last.calls[1].ret = 3
    /\ last.calls[1].arg = 4
    /\ last.size = 1

\* C15: on a stream endpoint, a receive operation whose recv() returned 0
\* (the peer closed the connection) throws nothing and leaves the buffer
\* with size 0 (read returns 0), and one whose recv() returned -1 throws the
\* read error.
C15_ZeroReadVersusFailure ==
    (/\ last.op \in RecvOps
     /\ eps[last.self].kind = "TCP"
     /\ Len(last.calls) = 1)
        => /\ last.calls[1].ret = 0
              => /\ last.err = NoErr
                 /\ last.op \in {">>vector", ">>string"} => last.size = 0 /\ last.buf = <<>>
                 /\ last.op = "read" => last.ret = 0
           /\ last.calls[1].ret = -1 => last.err = ErrRead

C17_RoundTrip ==
    [][\A s, u \in Slots :
          LET sent == IF eps[s].kind = "TCP" THEN last.calls[1].arg
                      ELSE last.calls[1].arg[1]
          IN  (/\ last.op \in SendOps
               /\ last.self = s
               /\ last.err = NoErr
               /\ last.calls[1].ret = Len(sent)
               /\ u # s
               /\ Live(u)
               /\ eps[u].sock_fd \in FDs
               /\ rxq[eps[u].sock_fd] = <<sent>>
               /\ last'.op = RecvOf(last.op)
               /\ last'.self = u
               /\ Len(last'.calls) = 1
               /\ last'.calls[1].ret # -1
               /\ last'.calls[1].arg >= Len(sent)
               /\ last'.sizeofT = last.sizeofT)
              => /\ last'.err = NoErr
                 /\ last'.op \in {">>vector", ">>string"} => last'.buf = last.buf
                 /\ last'.op \in {">>T", "read"}
                       => SubSeq(last'.buf, 1, Len(last.buf)) = last.buf
                 /\ last'.op = "read" => last'.ret = Len(last.buf)]_vars

\* C18: a send or receive operation, whether it succeeds or throws, leaves
\* every endpoint as it was (handle, role, address and address length) and
\* opens or closes no descriptor; a receive on a datagram endpoint stores no
\* sender address, and a send on a datagram endpoint passes sendto() the
\* address and length the endpoint held before the operation, which no
\* earlier send or receive has changed.
C18_IoLeavesEndpoint ==
    [][\A s \in Slots :
          (last'.op \in IoOps /\ last'.self = s)
          => /\ eps'[s].sock_fd = eps[s].sock_fd
             /\ eps'[s].side = eps[s].side
             /\ eps'[s].sock_conf = eps[s].sock_conf
             /\ eps'[s].sock_conf_len = eps[s].sock_conf_len
             /\ eps' = eps
             /\ open' = open
             /\ (eps[s].kind = "UDP" /\ last'.op \in SendOps)
                   => /\ last'.calls[1].fn = "sendto"
                      /\ last'.calls[1].arg[2] = eps[s].sock_conf
                      /\ last'.calls[1].arg[3] = eps[s].sock_conf_len]_vars

\* A datagram client received a datagram, and its address is still the one
\* its constructor configured.
C18_Witness ==
    /\ last.op \in RecvOps
    /\ last.err = NoErr
    /\ eps[last.self].kind = "UDP"
    /\ eps[last.self].side = "CLIENT"
    /\ last.calls[1].ret > 0
    /\ \E ip \in IpStrings :
          eps[last.self].sock_conf =
             UDPCtor(ip, <<"7">>, "CLIENT", eps[last.self].sock_fd, 0).obj.sock_conf

\* C19: move-assigning an endpoint to itself changes nothing: the endpoint
\* keeps its handle, role, address and address length, the handle is
\* neither closed nor replaced by -1, no system call is made, and a handle
\* that was open and held is still open and held.
C19_SelfMoveAssignIsNoOp ==
    [][\A s \in Slots :
          (last'.op = "move_assign" /\ last'.self = s /\ last'.obj = s)
          => /\ eps'[s].sock_fd = eps[s].sock_fd
             /\ eps'[s].side = eps[s].side
             /\ eps'[s].sock_conf = eps[s].sock_conf
             /\ eps'[s].sock_conf_len = eps[s].sock_conf_len
             /\ eps' = eps
             /\ open' = open
             /\ acquired' = acquired
             /\ last'.calls = NoCalls
             /\ (eps[s].sock_fd # -1 /\ eps[s].sock_fd \in open)
                   => eps'[s].sock_fd # -1 /\ eps'[s].sock_fd \in open']_vars

\* An endpoint that holds an open handle and the address its constructor
\* configured was move-assigned to itself.
C19_Witness ==
    /\ last.op = "move_assign"
    /\ last.self = last.obj
    /\ Holds(last.self)
    /\ eps[last.self].sock_fd \in open
    /\ eps[last.self].sock_conf # ZeroConf

====
